---------------------------- MODULE Spec2Model ----------------------------
(***************************************************************************)
(* ppt2md: the POST /ppt2md handler of src/app.py as a state machine.      *)
(*                                                                         *)
(* Python strings are sequences of one-character strings, byte strings are *)
(* sequences of byte values, the file system is the set of the normalised  *)
(* absolute paths that exist.  The external collaborators (soffice,        *)
(* pdftoppm, MarkItDown, Gemini) are nondeterministic: every outcome they  *)
(* can produce is a choice of the action that calls them.                  *)
(***************************************************************************)
EXTENDS Integers, Sequences, FiniteSets, TLC

(***************************************************************************)
(* Bounds of the model.                                                    *)
(***************************************************************************)
\* pages a rasterized PDF may have (0..MaxPages)
MaxPages == 10
\* the pages whose image the OCR model may find no text in (1..MaxBlankPage)
MaxBlankPage == 1
\* requests served one after the other by the process
MaxRequests == 2

(***************************************************************************)
(* Strings.                                                                *)
(***************************************************************************)
UpperCase == <<"A","B","C","D","E","F","G","H","I","J","K","L","M",
               "N","O","P","Q","R","S","T","U","V","W","X","Y","Z">>
LowerCase == <<"a","b","c","d","e","f","g","h","i","j","k","l","m",
               "n","o","p","q","r","s","t","u","v","w","x","y","z">>

\* str.lower() on one character
LowerChar(c) ==
    IF \E k \in 1..26 : UpperCase[k] = c
    THEN LowerCase[CHOOSE k \in 1..26 : UpperCase[k] = c]
    ELSE c

\* str.lower()
Lower(s) == [k \in 1..Len(s) |-> LowerChar(s[k])]

\* str.endswith(suffix)
EndsWith(s, suffix) ==
    /\ Len(suffix) <= Len(s)
    /\ SubSeq(s, Len(s) - Len(suffix) + 1, Len(s)) = suffix

\* str.startswith(prefix)
StartsWith(s, prefix) ==
    /\ Len(prefix) <= Len(s)
    /\ SubSeq(s, 1, Len(prefix)) = prefix

\* the characters str.strip() removes
IsSpace(c) == c \in {" ", "\n", "\t", "\r"}

\* str.strip()
Strip(s) ==
    LET keep == {k \in 1..Len(s) : ~IsSpace(s[k])}
    IN  IF keep = {} THEN <<>>
        ELSE LET lo == CHOOSE k \in keep : \A m \in keep : k <= m
                 hi == CHOOSE k \in keep : \A m \in keep : m <= k
             IN  SubSeq(s, lo, hi)

\* str.split(sep) for a one-character separator
Split(s, sep) ==
    LET at    == {k \in 1..Len(s) : s[k] = sep}
        \* the positions that bound the parts: 0, the separators, Len(s) + 1
        cut   == at \cup {0, Len(s) + 1}
        nth(n) == CHOOSE k \in cut : Cardinality({m \in cut : m < k}) = n
    IN  [n \in 1..(Cardinality(at) + 1) |-> SubSeq(s, nth(n-1) + 1, nth(n) - 1)]

RECURSIVE JoinFrom(_, _, _)
JoinFrom(parts, sep, k) ==
    IF k > Len(parts) THEN <<>>
    ELSE IF k = Len(parts) THEN parts[k]
    ELSE parts[k] \o sep \o JoinFrom(parts, sep, k + 1)

\* sep.join(parts)
Join(parts, sep) == JoinFrom(parts, sep, 1)

\* code points of the characters file names are compared by
CodeOrder == <<"\n", " ", "#", "-", ".", "/",
               "0","1","2","3","4","5","6","7","8","9",
               "A","B","C","D","E","F","G","H","I","J","K","L","M",
               "N","O","P","Q","R","S","T","U","V","W","X","Y","Z",
               "a","b","c","d","e","f","g","h","i","j","k","l","m",
               "n","o","p","q","r","s","t","u","v","w","x","y","z">>
Ord(c) == CHOOSE k \in 1..Len(CodeOrder) : CodeOrder[k] = c

\* a < b on Python strings: lexicographic by code point
StrLess(a, b) ==
    LET short == IF Len(a) < Len(b) THEN Len(a) ELSE Len(b)
        diff  == {k \in 1..short : a[k] # b[k]}
    IN  IF diff = {} THEN Len(a) < Len(b)
        ELSE LET d == CHOOSE k \in diff : \A m \in diff : k <= m
             IN  Ord(a[d]) < Ord(b[d])

RECURSIVE Sorted(_)
\* sorted(names) of a collection of distinct strings
Sorted(S) ==
    IF S = {} THEN <<>>
    ELSE LET x    == CHOOSE y \in S : TRUE
             rest == Sorted(S \ {x})
             less == Cardinality({k \in 1..Len(rest) : StrLess(rest[k], x)})
         IN  SubSeq(rest, 1, less) \o <<x>> \o SubSeq(rest, less + 1, Len(rest))

DigitChars == <<"0","1","2","3","4","5","6","7","8","9">>

RECURSIVE Digits(_)
\* str(n) of a natural number
Digits(n) ==
    IF n < 10 THEN <<DigitChars[n + 1]>>
    ELSE Digits(n \div 10) \o <<DigitChars[(n % 10) + 1]>>

\* bytes.decode('utf-8', 'ignore') on bytes that are ASCII or invalid (>= 128):
\* the invalid ones are dropped
DecodeIgnore(bytes) == SelectSeq(bytes, LAMBDA b : b < 128)

(***************************************************************************)
(* Paths (os.path).                                                        *)
(***************************************************************************)
Slash == <<"/">>

\* os.path.join(a, b)
PathJoin(a, b) ==
    IF StartsWith(b, Slash) THEN b
    ELSE IF a = <<>> \/ EndsWith(a, Slash) THEN a \o b
    ELSE a \o Slash \o b

\* os.path.basename(p)
Basename(p) == LET parts == Split(p, "/") IN parts[Len(parts)]

\* os.path.splitext(name)[0]: the name up to its last dot, leading dots apart
SplitextRoot(name) ==
    LET dots  == {k \in 1..Len(name) : name[k] = "."}
        lead  == {k \in 1..Len(name) : \A m \in 1..k : name[m] = "."}
        inner == dots \ lead
    IN  IF inner = {} THEN name
        ELSE LET last == CHOOSE k \in inner : \A m \in inner : m <= k
             IN  SubSeq(name, 1, last - 1)

RECURSIVE Walk(_, _, _)
Walk(parts, k, at) ==
    IF k > Len(parts) THEN at
    ELSE IF parts[k] = <<>> \/ parts[k] = <<".">> THEN Walk(parts, k + 1, at)
    ELSE IF parts[k] = <<".", ".">>
         THEN Walk(parts, k + 1,
                   IF at = <<>> THEN <<>> ELSE SubSeq(at, 1, Len(at) - 1))
    ELSE Walk(parts, k + 1, Append(at, parts[k]))

\* the components of an absolute path as the kernel resolves it
Normalise(p) == Walk(Split(p, "/"), 1, <<>>)

\* the absolute path a path string names
Resolve(p) == Slash \o Join(Normalise(p), Slash)

\* the directory a resolved path lies in
Dirname(p) ==
    LET c == Normalise(p)
    IN  IF c = <<>> THEN Slash
        ELSE Slash \o Join(SubSeq(c, 1, Len(c) - 1), Slash)

\* p lies under directory d
Under(p, d) == StartsWith(p, d \o Slash)


(***************************************************************************)
(* Configuration and literals of src/app.py.                               *)
(***************************************************************************)
\* int(os.getenv("MIN_TEXT_CHARS", "80"))
MIN_TEXT_CHARS == 80

AUTO  == <<"a","u","t","o">>
FORCE == <<"f","o","r","c","e">>
OFF   == <<"o","f","f">>
PPT   == <<"p","p","t">>
PPTX  == <<"p","p","t","x">>
DotPdf == <<".","p","d","f">>
DotPng == <<".","p","n","g">>

\* the X-Filename default, "arquivo.pptx"
DefaultName == <<"a","r","q","u","i","v","o",".","p","p","t","x">>

\* tempfile.gettempdir()
TmpRoot == <<"/","t","m","p">>

\* _ok_ext with the dot of the suffixes forgotten
_ok_ext_NoDot(name) ==
    LET n == Lower(name)
    IN  EndsWith(n, PPT) \/ EndsWith(n, PPTX)

\* _ok_ext(name)
_ok_ext(name) ==
    LET n == Lower(name)
    IN  EndsWith(n, <<".">> \o PPT) \/ EndsWith(n, <<".">> \o PPTX)

\* optional values: <<>> is absent, <<v>> is present; dict.get(key, default)
Get(opt, default) == IF opt = <<>> THEN default ELSE opt[1]

(***************************************************************************)
(* What a client can send.                                                 *)
(***************************************************************************)
FileNames ==
    { <<"a",".","p","p","t","x">>,
      <<"A",".","P","P","T">>,
      <<"a",".","p","d","f">>,
      <<"p","p","t">>,
      <<".",".","/","a",".","p","p","t","x">>,
      <<"/","t","m","p","/","a",".","p","p","t">>,
      <<"d","/","a",".","p","p","t","x">> }

OcrArgs == { <<>>, <<AUTO>>, <<FORCE>>, << <<"F","O","R","C","E">> >>,
             <<OFF>>, << <<"x">> >> }

Payloads == { <<>>, <<80, 75>> }

MultipartType == "multipart/form-data; boundary=b"
RawType       == "application/octet-stream"

\* "multipart/form-data" in ctype
IsMultipart(ctype) == ctype = MultipartType

Requests ==
    [ ocr       : OcrArgs,
      ctype     : {MultipartType},
      xfilename : {<<>>} \cup {<<n>> : n \in FileNames \cup {<<>>}},
      file      : {<<>>} \cup { <<[filename |-> n, data |-> d]>> :
                                   n \in FileNames \cup {<<>>}, d \in Payloads },
      body      : {<<>>} ]
    \cup
    [ ocr       : OcrArgs,
      ctype     : {RawType},
      xfilename : {<<>>} \cup {<<n>> : n \in FileNames \cup {<<>>}},
      file      : {<<>>},
      body      : Payloads ]

(***************************************************************************)
(* What the collaborators can answer.                                      *)
(***************************************************************************)
\* captured stderr of a failed tool: empty, ASCII, ASCII with an invalid byte
Stderrs == { <<>>, <<101>>, <<101, 255>> }

Xs(n) == [k \in 1..n |-> "x"]

\* res.text_content of MarkItDown (None and "" both read as "")
NativeRaw ==
    { <<>>, <<" ", "\n">> }
    \cup { <<" ">> \o Xs(n) \o <<"\n">> :
              n \in {MIN_TEXT_CHARS - 1, MIN_TEXT_CHARS} }

\* resp.text of Gemini for the image of page p (None and "" both read as "")
OcrRaw(p) ==
    { <<" ", "t">> \o Digits(p) \o <<"\n">> }
    \cup (IF p <= MaxBlankPage THEN {<<>>} ELSE {})

\* soffice: wrote <base>.pdf, wrote a PDF under another name, wrote nothing
\* and exited 0, exited non-zero
SofficeOutcomes == {"ok", "other", "nopdf", "exit"}

(***************************************************************************)
(* The file system.                                                        *)
(***************************************************************************)
\* tempfile.mkdtemp(): a fresh directory under the temp root
TempDirName(tag, n) == TmpRoot \o <<"/", tag>> \o Digits(n)

\* glob.glob(os.path.join(dir, prefix + "*" + suffix)): unordered
Glob(files, dir, prefix, suffix) ==
    {p \in files : /\ Dirname(p) = dir
                   /\ StartsWith(Basename(p), prefix)
                   /\ EndsWith(Basename(p), suffix)
                   /\ Len(Basename(p)) >= Len(prefix) + Len(suffix)
                   /\ ~StartsWith(Basename(p), <<".">>)}

\* open(path, "wb") succeeds: the parent is a directory, the path is not
CanCreate(directories, path) ==
    /\ Dirname(Resolve(path)) \in directories
    /\ Resolve(path) \notin directories

(***************************************************************************)
(* The collaborators' functions.                                           *)
(***************************************************************************)
\* the files soffice --convert-to pdf --outdir outdir src_path leaves behind
SofficeWrites(outcome, src_path, outdir) ==
    IF outcome = "ok"
    THEN {Resolve(PathJoin(outdir, SplitextRoot(Basename(src_path)) \o DotPdf))}
    ELSE IF outcome = "other"
    THEN {Resolve(PathJoin(outdir, <<"o","u","t">> \o DotPdf))}
    ELSE {}

\* ppt_any_to_pdf(src_path, outdir) once soffice has exited 0 and left `files`:
\* <<pdf_path>>, or <<>> for RuntimeError("Falha na conversão para PDF")
ppt_any_to_pdf(files, src_path, outdir) ==
    LET base     == SplitextRoot(Basename(src_path))
        pdf_path == PathJoin(outdir, base \o DotPdf)
        pdfs     == Sorted(Glob(files, outdir, <<>>, DotPdf))
    IN  IF Resolve(pdf_path) \in files THEN <<pdf_path>>
        ELSE IF pdfs = <<>> THEN <<>>
        ELSE <<pdfs[1]>>

\* the file pdftoppm -png writes for page p of n: <prefix>-<p>.png, the page
\* number zero-padded to the width of n
PageFile(prefix, p, n) ==
    LET w   == Len(Digits(n))
        d   == Digits(p)
        pad == [k \in 1..(w - Len(d)) |-> "0"]
    IN  prefix \o <<"-">> \o pad \o d \o DotPng

SlidePrefix(outdir) == PathJoin(outdir, <<"s","l","i","d","e">>)

\* pdf_to_images without sorted(): glob's order, here the reverse one
pdf_to_images_Unsorted(files, outdir) ==
    LET s == Sorted(Glob(files, outdir, <<"s","l","i","d","e","-">>, DotPng))
    IN  [k \in 1..Len(s) |-> s[Len(s) + 1 - k]]

\* pdf_to_images(pdf_path, outdir) once pdftoppm has exited 0 and left `files`
pdf_to_images(files, outdir) ==
    Sorted(Glob(files, outdir, <<"s","l","i","d","e","-">>, DotPng))

\* the i of enumerate(images, 1) at position k (1-based) of images
SlideNumber(k) == k

\* f"# Slide {i}\n{text}".strip()
SlideBlock(n, text) ==
    Strip(<<"#"," ","S","l","i","d","e"," ">> \o Digits(n) \o <<"\n">> \o text)

\* do_ocr with the mode of the auto disjunct not tested
do_ocr_AnyShort(mode, text) ==
    (mode = FORCE) \/ (Len(text) < MIN_TEXT_CHARS)

\* do_ocr with <= for <
do_ocr_Inclusive(mode, text) ==
    (mode = FORCE) \/ (mode = AUTO /\ Len(text) <= MIN_TEXT_CHARS)

\* do_ocr with force subject to the threshold too
do_ocr_ShortOnly(mode, text) ==
    (mode = FORCE \/ mode = AUTO) /\ Len(text) < MIN_TEXT_CHARS

\* do_ocr of line 104
do_ocr(mode, text) ==
    (mode = FORCE) \/ (mode = AUTO /\ Len(text) < MIN_TEXT_CHARS)

\* lines 106-113 without the credential test of line 107
Decide_NoKeyCheck(mode, text, key) ==
    IF do_ocr(mode, text) THEN "ocr" ELSE "native"

\* lines 106-113: what the handler does with the native text: answer with it
\* ("native"), answer with the configuration error ("config"), go on to OCR
Decide(mode, text, key) ==
    IF do_ocr(mode, text)
    THEN (IF key = <<>> THEN "config" ELSE "ocr")
    ELSE "native"

\* lines 99-102 with a .ppt sent to OCR without its native text being read
FirstStep_PptToOcr(e) == IF e = PPTX THEN "extract" ELSE "ocrconvert"

\* lines 99-102: a .pptx is read as it is, anything else is converted first
FirstStep(e) == IF e = PPTX THEN "extract" ELSE "convert"

\* lines 100, 102: the file the native text is read from
NativeSource(e, src_path, pdf) == IF e = PPTX THEN src_path ELSE pdf

(***************************************************************************)
(* Responses (jsonify(body), status).                                      *)
(***************************************************************************)
NoResponse == [status |-> 0, body |-> [pending |-> TRUE]]

MissingFile == [status |-> 400, body |-> [error |-> "Nenhum arquivo recebido"]]

BadExtension == [status |-> 415, body |-> [error |-> "Envie .ppt ou .pptx"]]

ConfigError ==
    [status |-> 500,
     body   |-> [error |-> "OCR necessário, mas GOOGLE_API_KEY não configurada",
                 hint  |-> "defina GOOGLE_API_KEY ou use ?ocr=off"]]

\* the CalledProcessError handler without the detail field
ExternalError_NoDetail(stderr) ==
    [status |-> 500, body |-> [error |-> "Erro em conversão externa"]]

\* except subprocess.CalledProcessError as e
ExternalError(stderr) ==
    [status |-> 500,
     body   |-> [error  |-> "Erro em conversão externa",
                 detail |-> DecodeIgnore(stderr)]]

\* except Exception as e
GenericError(msg) == [status |-> 500, body |-> [error |-> msg]]

Success(ext, engine, strategy, txt) ==
    [status |-> 200,
     body   |-> [format |-> ext, engine |-> engine, strategy |-> strategy,
                 chars |-> Len(txt), content_markdown |-> txt]]

\* one entry of the request's record of external calls: the tool, its argument,
\* how it ended (ok, exit: non-zero exit status, nopdf: RuntimeError, raise),
\* the stderr captured from a failed process, what the call returned
Call(tool, arg, res, err, ret) ==
    [tool |-> tool, arg |-> arg, res |-> res, err |-> err, ret |-> ret]

(***************************************************************************)
(* State.                                                                  *)
(***************************************************************************)
VARIABLES
    pc,              \* where the handler is: idle, accepted, convert, extract,
                     \* ocrconvert, raster, ocr, done (the response is out)
    reqNo,           \* requests received so far
    GOOGLE_API_KEY,  \* the process-wide credential ("" when not configured)
    ocr_mode, filename, data,      \* lines 78-85
    files, dirs,     \* the file system: existing files, existing directories
    tdir, src,       \* lines 93-94
    ext, native,     \* lines 97-102
    pdf_path,        \* the path the last ppt_any_to_pdf returned
    ocrdir, images, i, out,        \* ocr_pdf_with_gemini
    resp,            \* the response of the request
    calls,           \* the external calls of the request, in order
    created          \* the paths the request has created

vars == <<pc, reqNo, GOOGLE_API_KEY, ocr_mode, filename, data, files, dirs,
          tdir, src, ext, native, pdf_path, ocrdir, images, i, out, resp,
          calls, created>>

Init ==
    /\ pc = "idle"
    /\ reqNo = 0
    /\ GOOGLE_API_KEY \in {<<>>, <<"k">>}
    /\ ocr_mode = <<>>
    /\ filename = <<>>
    /\ data = <<>>
    /\ files = {}
    /\ dirs = {Slash, TmpRoot}
    /\ tdir = <<>>
    /\ src = <<>>
    /\ ext = <<>>
    /\ native = <<>>
    /\ pdf_path = <<>>
    /\ ocrdir = <<>>
    /\ images = <<>>
    /\ i = 0
    /\ out = <<>>
    /\ resp = NoResponse
    /\ calls = <<>>
    /\ created = {}

\* the handler returns or raises: every TemporaryDirectory block it is in is
\* left (rmtree of `tmpdirs`), the locals go out of scope
Return(response, log, made, filesNow, tmpdirs) ==
    /\ pc' = "done"
    /\ resp' = response
    /\ calls' = log
    /\ created' = made
    /\ files' = {p \in filesNow : \A d \in tmpdirs : ~Under(p, d)}
    /\ dirs' = dirs \ tmpdirs
    /\ tdir' = <<>>
    /\ src' = <<>>
    /\ pdf_path' = <<>>
    /\ ocrdir' = <<>>
    /\ images' = <<>>
    /\ i' = 0
    /\ out' = <<>>
    /\ UNCHANGED <<reqNo, GOOGLE_API_KEY, ocr_mode, filename, data>>

(***************************************************************************)
(* POST /ppt2md                                                            *)
(***************************************************************************)
\* lines 78-90: read the request, refuse a missing file or a bad extension
Receive ==
    /\ pc = "idle"
    /\ reqNo < MaxRequests
    /\ \E rq \in Requests :
         LET mode   == Lower(Get(rq.ocr, AUTO))
             header == Get(rq.xfilename, DefaultName)
             upload == IsMultipart(rq.ctype) /\ rq.file # <<>>
             bytes  == IF upload THEN rq.file[1].data ELSE rq.body
             name   == IF upload /\ rq.file[1].filename # <<>>
                       THEN rq.file[1].filename ELSE header
         IN  /\ reqNo' = reqNo + 1
             /\ ocr_mode' = mode
             /\ filename' = name
             /\ data' = bytes
             /\ ext' = <<>>
             /\ native' = <<>>
             /\ calls' = <<>>
             /\ created' = {}
             /\ resp' = IF bytes = <<>> THEN MissingFile
                        ELSE IF ~_ok_ext(name) THEN BadExtension
                        ELSE NoResponse
             /\ pc' = IF bytes = <<>> \/ ~_ok_ext(name) THEN "done"
                      ELSE "accepted"
             /\ UNCHANGED <<GOOGLE_API_KEY, files, dirs, tdir, src, pdf_path,
                            ocrdir, images, i, out>>

\* lines 93-97: make the temporary directory, write the upload into it
WriteUpload ==
    /\ pc = "accepted"
    /\ LET t    == TempDirName("r", reqNo)
           path == PathJoin(t, filename)
           e    == LET parts == Split(Lower(filename), ".")
                   IN  parts[Len(parts)]
       IN  IF CanCreate(dirs \cup {t}, path)
           THEN /\ tdir' = t
                /\ src' = path
                /\ ext' = e
                /\ dirs' = dirs \cup {t}
                /\ files' = files \cup {Resolve(path)}
                /\ created' = created \cup {t, Resolve(path)}
                /\ pc' = FirstStep(e)
                /\ UNCHANGED <<reqNo, GOOGLE_API_KEY, ocr_mode, filename, data,
                               native, pdf_path, ocrdir, images, i, out, resp,
                               calls>>
           ELSE /\ Return(GenericError("No such file or directory"), calls,
                          created \cup {t}, files, {t})
                /\ UNCHANGED <<ext, native>>

\* a call ppt_any_to_pdf(src, tdir) of the handler, which goes on at `next`
Convert(next) ==
    \E o \in SofficeOutcomes, err \in Stderrs :
       LET wrote  == SofficeWrites(o, src, tdir)
           after  == files \cup wrote
           result == ppt_any_to_pdf(after, src, tdir)
       IN  IF o = "exit"
           THEN /\ Return(ExternalError(err),
                          Append(calls, Call("soffice", src, "exit", err, <<>>)),
                          created, files, {tdir})
                /\ UNCHANGED <<ext, native>>
           ELSE IF result = <<>>
           THEN /\ err = <<>>
                /\ Return(GenericError("Falha na conversão para PDF"),
                          Append(calls, Call("soffice", src, "nopdf", <<>>, <<>>)),
                          created \cup wrote, after, {tdir})
                /\ UNCHANGED <<ext, native>>
           ELSE /\ err = <<>>
                /\ files' = after
                /\ created' = created \cup wrote
                /\ pdf_path' = result[1]
                /\ calls' = Append(calls,
                              Call("soffice", src, "ok", <<>>, result[1]))
                /\ pc' = next
                /\ UNCHANGED <<reqNo, GOOGLE_API_KEY, ocr_mode, filename, data,
                               dirs, tdir, src, ext, native, ocrdir, images, i,
                               out, resp>>

\* line 102, first half: ppt_any_to_pdf(src, tdir) of a .ppt upload
ConvertNative ==
    /\ pc = "convert"
    /\ Convert("extract")

\* lines 99-118: the native text, then the decision and the answers that need
\* no further external call
ExtractNative ==
    /\ pc = "extract"
    /\ \E raised \in BOOLEAN, raw \in NativeRaw :
         LET path == NativeSource(ext, src, pdf_path)
             text == Strip(raw)
             todo == Decide(ocr_mode, text, GOOGLE_API_KEY)
             log  == Append(calls, Call("markitdown", path, "ok", <<>>, text))
         IN  IF raised
             THEN /\ raw = <<>>
                  /\ Return(GenericError("MarkItDown failed"),
                            Append(calls,
                              Call("markitdown", path, "raise", <<>>, <<>>)),
                            created, files, {tdir})
                  /\ UNCHANGED <<ext, native>>
             ELSE IF todo = "native"
             THEN /\ Return(Success(ext, "markitdown-native", "native-only", text),
                            log, created, files, {tdir})
                  /\ native' = text
                  /\ UNCHANGED ext
             ELSE IF todo = "config"
             THEN /\ Return(ConfigError, log, created, files, {tdir})
                  /\ native' = text
                  /\ UNCHANGED ext
             ELSE /\ native' = text
                  /\ calls' = log
                  /\ pc' = "ocrconvert"
                  /\ UNCHANGED <<reqNo, GOOGLE_API_KEY, ocr_mode, filename, data,
                                 files, dirs, tdir, src, ext, pdf_path, ocrdir,
                                 images, i, out, resp, created>>

\* line 110, the argument: ppt_any_to_pdf(src, tdir) of the OCR branch
ConvertOcr ==
    /\ pc = "ocrconvert"
    /\ Convert("raster")

\* lines 50-52: the OCR directory and pdf_to_images(pdf_path, tdir)
Rasterize ==
    /\ pc = "raster"
    /\ \E failed \in BOOLEAN, err \in Stderrs, n \in 0..MaxPages :
         LET od    == TempDirName("o", reqNo)
             wrote == {Resolve(PageFile(SlidePrefix(od), p, n)) : p \in 1..n}
             after == files \cup wrote
             found == pdf_to_images(after, od)
         IN  IF failed
             THEN /\ n = 0
                  /\ Return(ExternalError(err),
                            Append(calls,
                              Call("pdftoppm", pdf_path, "exit", err, <<>>)),
                            created \cup {od}, files, {tdir, od})
                  /\ UNCHANGED <<ext, native>>
             ELSE /\ err = <<>>
                  /\ ocrdir' = od
                  /\ dirs' = dirs \cup {od}
                  /\ files' = after
                  /\ created' = created \cup {od} \cup wrote
                  /\ images' = found
                  /\ i' = 1
                  /\ out' = <<>>
                  /\ calls' = Append(calls,
                                Call("pdftoppm", pdf_path, "ok", <<>>, found))
                  /\ pc' = "ocr"
                  /\ UNCHANGED <<reqNo, GOOGLE_API_KEY, ocr_mode, filename, data,
                                 tdir, src, ext, native, pdf_path, resp>>

\* the page an image of the OCR directory shows
PageOf(img, od, n) ==
    CHOOSE p \in 1..n : Resolve(PageFile(SlidePrefix(od), p, n)) = img

\* lines 53-55: one turn of the loop, one gemini_ocr call
OcrSlide ==
    /\ pc = "ocr"
    /\ i <= Len(images)
    /\ \E raised \in BOOLEAN,
          raw \in OcrRaw(PageOf(images[i], ocrdir, Len(images))) :
         LET text == Strip(raw)
         IN  IF raised
             THEN /\ raw = <<>>
                  /\ Return(GenericError("Gemini failed"),
                            Append(calls,
                              Call("gemini", images[i], "raise", <<>>, <<>>)),
                            created, files, {tdir, ocrdir})
                  /\ UNCHANGED <<ext, native>>
             ELSE /\ out' = Append(out, SlideBlock(SlideNumber(i), text))
                  /\ i' = i + 1
                  /\ calls' = Append(calls,
                                Call("gemini", images[i], "ok", <<>>, text))
                  /\ UNCHANGED <<pc, reqNo, GOOGLE_API_KEY, ocr_mode, filename,
                                 data, files, dirs, tdir, src, ext, native,
                                 pdf_path, ocrdir, images, resp, created>>

\* lines 56, 111, 115-118: join the blocks and answer
OcrFinish ==
    /\ pc = "ocr"
    /\ i > Len(images)
    /\ LET txt == Strip(Join(out, <<"\n", "\n">>))
       IN  Return(Success(ext, "gemini-ocr",
                          IF ocr_mode = FORCE THEN "ocr-forced" ELSE "ocr-fallback",
                          txt),
                  calls, created, files, {tdir, ocrdir})
    /\ UNCHANGED <<ext, native>>

\* the response has been sent: the worker is free for the next request, and
\* nothing of the request is left but the files it left behind
Finish ==
    /\ pc = "done"
    /\ pc' = "idle"
    /\ ocr_mode' = <<>>
    /\ filename' = <<>>
    /\ data' = <<>>
    /\ ext' = <<>>
    /\ native' = <<>>
    /\ resp' = NoResponse
    /\ calls' = <<>>
    /\ created' = {}
    /\ UNCHANGED <<reqNo, GOOGLE_API_KEY, files, dirs, tdir, src, pdf_path,
                   ocrdir, images, i, out>>

Next ==
    \/ Receive
    \/ WriteUpload
    \/ ConvertNative
    \/ ExtractNative
    \/ ConvertOcr
    \/ Rasterize
    \/ OcrSlide
    \/ OcrFinish
    \/ Finish

Spec == Init /\ [][Next]_vars

(***************************************************************************)
(* Vocabulary of the properties.                                           *)
(***************************************************************************)
\* the positions of the request's calls of a tool
CallIdx(tool) == {k \in 1..Len(calls) : calls[k].tool = tool}

Invoked(tool) == CallIdx(tool) # {}

\* the calls of a tool, in order
CallsOf(tool) == SelectSeq(calls, LAMBDA c : c.tool = tool)

\* the name ends, whatever the case of its letters, in .ppt or .pptx
SupportedName(name) ==
    LET last(n) == name[Len(name) + 1 - n]
    IN  \/ /\ Len(name) >= 4
           /\ last(4) = "."
           /\ last(3) \in {"p", "P"}
           /\ last(2) \in {"p", "P"}
           /\ last(1) \in {"t", "T"}
        \/ /\ Len(name) >= 5
           /\ last(5) = "."
           /\ last(4) \in {"p", "P"}
           /\ last(3) \in {"p", "P"}
           /\ last(2) \in {"t", "T"}
           /\ last(1) \in {"x", "X"}

\* the request carries a non-empty file with a supported name
GoodUpload == data # <<>> /\ SupportedName(filename)

\* native text extraction has returned in this request
NativeIdx == {k \in CallIdx("markitdown") : calls[k].res = "ok"}
NativeDone == NativeIdx # {}
NativeText == calls[CHOOSE k \in NativeIdx : TRUE].ret

\* every external call of the request so far has succeeded
AllCallsOk == \A k \in 1..Len(calls) : calls[k].res = "ok"

\* the images the rasterizer returned in this request
Rasterized == calls[CHOOSE k \in CallIdx("pdftoppm") : TRUE].ret

\* the k-th block of an OCR result holding transcription t
ExpectedBlock(k, t) ==
    <<"#", " ", "S", "l", "i", "d", "e", " ">> \o Digits(k)
        \o (IF t = <<>> THEN <<>> ELSE <<"\n">> \o t)

RECURSIVE ExpectedFrom(_, _)
ExpectedFrom(g, k) ==
    IF k > Len(g) THEN <<>>
    ELSE ExpectedBlock(k, g[k].ret)
            \o (IF k < Len(g) THEN <<"\n", "\n">> ELSE <<>>)
            \o ExpectedFrom(g, k + 1)

\* the OCR result of the transcriptions the OCR calls g returned
ExpectedOcrText(g) == ExpectedFrom(g, 1)

IsOcrSuccess(strategy) ==
    /\ resp.status = 200
    /\ resp.body.engine = "gemini-ocr"
    /\ resp.body.strategy = strategy
    /\ resp.body.content_markdown = ExpectedOcrText(CallsOf("gemini"))
    /\ resp.body.chars = Len(ExpectedOcrText(CallsOf("gemini")))

IsNativeSuccess ==
    /\ resp.status = 200
    /\ resp.body.engine = "markitdown-native"
    /\ resp.body.strategy = "native-only"
    /\ resp.body.content_markdown = NativeText
    /\ resp.body.chars = Len(NativeText)

IsConfigError ==
    /\ resp.status = 500
    /\ DOMAIN resp.body = {"error", "hint"}
    /\ resp.body.error = "OCR necessário, mas GOOGLE_API_KEY não configurada"
    /\ resp.body.hint = "defina GOOGLE_API_KEY ou use ?ocr=off"

\* the external-tool error carrying the decoded stderr of failed call c
IsExternalError(c) ==
    /\ resp.status = 500
    /\ DOMAIN resp.body = {"error", "detail"}
    /\ resp.body.error = "Erro em conversão externa"
    /\ resp.body.detail = SelectSeq(c.err, LAMBDA b : b < 128)

\* a 500 with a message and nothing else
IsGenericError ==
    /\ resp.status = 500
    /\ DOMAIN resp.body = {"error"}

(***************************************************************************)
(* C1.  With ocr=off the OCR Client is never invoked at any point of the   *)
(* request, whatever the extension, the native text length and the         *)
(* credential.                                                             *)
(***************************************************************************)
C1_OffNeverOcr == ocr_mode = OFF => ~Invoked("gemini")

\* an ocr=off request answered with an empty native text, credential set
C1_Witness ==
    /\ pc = "done"
    /\ ocr_mode = OFF
    /\ GOOGLE_API_KEY # <<>>
    /\ NativeDone
    /\ NativeText = <<>>
    /\ resp.status = 200

(***************************************************************************)
(* C2.  With ocr=auto, a non-empty .ppt/.pptx upload and a native text of  *)
(* length >= MIN_TEXT_CHARS, the request ends as soon as the native text   *)
(* is there: 200, the native text unchanged, its length, engine            *)
(* markitdown-native, strategy native-only, and neither the rasterizer nor *)
(* the OCR Client is invoked.                                              *)
(***************************************************************************)
C2_AutoSufficientIsNative ==
    (/\ ocr_mode = AUTO
     /\ GoodUpload
     /\ NativeDone
     /\ Len(NativeText) >= MIN_TEXT_CHARS)
    => /\ pc = "done"
       /\ IsNativeSuccess
       /\ resp.body.format = ext
       /\ ~Invoked("pdftoppm")
       /\ ~Invoked("gemini")

\* the boundary: a native text of exactly MIN_TEXT_CHARS characters
C2_Witness ==
    /\ pc = "done"
    /\ ocr_mode = AUTO
    /\ NativeDone
    /\ Len(NativeText) = MIN_TEXT_CHARS
    /\ resp.status = 200
    /\ resp.body.chars = MIN_TEXT_CHARS

(***************************************************************************)
(* C3 as stated.  With ocr=force, a non-empty .ppt/.pptx upload, the       *)
(* credential and a successful native extraction, the OCR Client is        *)
(* invoked and the answer is the OCR text (gemini-ocr, ocr-forced).        *)
(***************************************************************************)
C3_ForceAlwaysOcrText ==
    (/\ pc = "done"
     /\ ocr_mode = FORCE
     /\ GoodUpload
     /\ GOOGLE_API_KEY # <<>>
     /\ NativeDone)
    => /\ Invoked("gemini")
       /\ IsOcrSuccess("ocr-forced")

(***************************************************************************)
(* C3 amended.  Under the same conditions the OCR branch is taken whatever *)
(* the native text length: the conversion of the OCR step is attempted and *)
(* the native text is never the answer.  When that conversion, the         *)
(* rasterizer and every OCR call succeed, the answer is 200 with the OCR   *)
(* text (gemini-ocr, ocr-forced) and the OCR Client has been invoked once  *)
(* per rasterized image; when one of them fails, the answer is a 500.      *)
(***************************************************************************)
C3_ForceTakesOcrBranch ==
    (/\ pc = "done"
     /\ ocr_mode = FORCE
     /\ GoodUpload
     /\ GOOGLE_API_KEY # <<>>
     /\ NativeDone)
    => /\ \E k \in CallIdx("soffice") : \A m \in NativeIdx : m < k
       /\ ~(resp.status = 200 /\ resp.body.engine = "markitdown-native")
       /\ AllCallsOk => /\ IsOcrSuccess("ocr-forced")
                        /\ Invoked("pdftoppm")
                        /\ Len(CallsOf("gemini")) = Len(Rasterized)
       /\ ~AllCallsOk => resp.status = 500

\* forced OCR of a file whose native text is long enough, answered from OCR
C3_Witness ==
    /\ pc = "done"
    /\ ocr_mode = FORCE
    /\ NativeDone
    /\ Len(NativeText) >= MIN_TEXT_CHARS
    /\ Invoked("gemini")
    /\ resp.status = 200
    /\ resp.body.strategy = "ocr-forced"
    /\ resp.body.content_markdown # NativeText

(***************************************************************************)
(* C4 as stated.  With ocr=force, a non-empty .ppt/.pptx upload and no     *)
(* credential, the outcome is the configuration error, and the rasterizer  *)
(* and the OCR Client are never invoked.                                   *)
(***************************************************************************)
C4_ForceNoKeyIsConfigError ==
    (/\ pc = "done"
     /\ ocr_mode = FORCE
     /\ GoodUpload
     /\ GOOGLE_API_KEY = <<>>)
    => /\ IsConfigError
       /\ ~Invoked("pdftoppm")
       /\ ~Invoked("gemini")

(***************************************************************************)
(* C4 amended.  With ocr=force, a non-empty .ppt/.pptx upload and no       *)
(* credential, the rasterizer and the OCR Client are never invoked and the *)
(* answer is a 500 without content_markdown: the configuration error (with *)
(* its hint) when the native extraction has succeeded, and the error of    *)
(* the step that failed before it (writing the upload, converting a .ppt,  *)
(* extracting the native text) otherwise.                                  *)
(***************************************************************************)
C4_ForceNoKeyNeverOcr ==
    (/\ ocr_mode = FORCE
     /\ GoodUpload
     /\ GOOGLE_API_KEY = <<>>)
    => /\ ~Invoked("pdftoppm")
       /\ ~Invoked("gemini")
       /\ pc = "done" =>
             /\ resp.status = 500
             /\ "content_markdown" \notin DOMAIN resp.body
             /\ NativeDone => IsConfigError
             /\ ~NativeDone =>
                   IF calls # <<>> /\ calls[Len(calls)].res = "exit"
                   THEN IsExternalError(calls[Len(calls)])
                   ELSE IsGenericError

\* forced OCR without credential on a long native text: configuration error
C4_Witness ==
    /\ pc = "done"
    /\ ocr_mode = FORCE
    /\ GOOGLE_API_KEY = <<>>
    /\ NativeDone
    /\ Len(NativeText) >= MIN_TEXT_CHARS
    /\ resp.status = 500
    /\ "hint" \in DOMAIN resp.body

(***************************************************************************)
(* C5.  At the end of every request, whatever its outcome and whatever     *)
(* file name the client supplied, nothing the request created still        *)
(* exists.                                                                 *)
(***************************************************************************)
C5_NothingSurvives == pc = "done" => created \cap (files \cup dirs) = {}

(***************************************************************************)
(* C6 as stated.  Whenever the document converter (ppt_any_to_pdf, in the  *)
(* native or in the OCR step) or the rasterizer fails, the request ends    *)
(* with the external-tool error carrying the tool's stderr.                *)
(***************************************************************************)
C6_ToolFailureIsExternalError ==
    \A k \in CallIdx("soffice") \cup CallIdx("pdftoppm") :
        calls[k].res # "ok" => pc = "done" /\ IsExternalError(calls[k])

(***************************************************************************)
(* C6 amended.  Whenever the document converter or the rasterizer exits    *)
(* with a non-zero status, the request ends with HTTP 500 'Erro em         *)
(* conversão externa' whose detail is the tool's stderr decoded as UTF-8,  *)
(* undecodable bytes dropped.  When the converter exits with status zero   *)
(* and leaves no PDF, the request ends with a 500 that carries only the    *)
(* message 'Falha na conversão para PDF'.  Neither ends as 200.            *)
(***************************************************************************)
C6_NonZeroExitIsExternalError ==
    \A k \in CallIdx("soffice") \cup CallIdx("pdftoppm") :
        /\ calls[k].res = "exit" => pc = "done" /\ IsExternalError(calls[k])
        /\ calls[k].res = "nopdf" =>
              /\ pc = "done"
              /\ IsGenericError
              /\ resp.body.error = "Falha na conversão para PDF"

\* the conversion of the OCR step exits non-zero with an undecodable byte in
\* its stderr
C6_Witness ==
    /\ pc = "done"
    /\ NativeDone
    /\ calls[Len(calls)].tool = "soffice"
    /\ calls[Len(calls)].res = "exit"
    /\ calls[Len(calls)].err = <<101, 255>>
    /\ resp.body.detail = <<101>>

(***************************************************************************)
(* C7.  An OCR result built from n rasterized images is n blocks joined in *)
(* order, the k-th headed '# Slide k' and holding the transcription of the *)
(* image of page k; the OCR Client is called once per image, one call      *)
(* after the other in that order, and no image is skipped.                 *)
(***************************************************************************)
C7_SlidesInOrder ==
    /\ (pc = "ocr") =>
          /\ Len(out) = i - 1
          /\ Len(CallsOf("gemini")) = i - 1
          /\ \A k \in 1..Len(out) :
                out[k] = ExpectedBlock(k, CallsOf("gemini")[k].ret)
    /\ (pc = "done" /\ resp.status = 200 /\ resp.body.engine = "gemini-ocr") =>
          LET imgs  == Rasterized
              n     == Len(imgs)
              g     == CallsOf("gemini")
              first == CHOOSE k \in CallIdx("pdftoppm") : TRUE
          IN  /\ Len(g) = n
              /\ Len(calls) = first + n
              /\ \A k \in 1..n :
                    /\ imgs[k] = PageFile(SlidePrefix(TempDirName("o", reqNo)),
                                          k, n)
                    /\ calls[first + k].tool = "gemini"
                    /\ calls[first + k].arg = imgs[k]
                    /\ calls[first + k].ret \in {<<>>, <<"t">> \o Digits(k)}
              /\ resp.body.content_markdown = ExpectedOcrText(g)

\* an OCR result of ten slides or more, one of them without text
C7_Witness ==
    /\ pc = "done"
    /\ resp.status = 200
    /\ resp.body.engine = "gemini-ocr"
    /\ Len(CallsOf("gemini")) >= 10
    /\ CallsOf("gemini")[1].ret = <<>>
    /\ CallsOf("gemini")[2].ret # <<>>
    /\ CallsOf("gemini")[10].ret # <<>>

(***************************************************************************)
(* C8.  The first external call of a request is the native extraction (of  *)
(* the upload itself for .pptx, of its PDF conversion for .ppt), whatever  *)
(* the OCR mode, and it has returned before the first OCR Client call:     *)
(* the OCR Client is never invoked without it.                             *)
(***************************************************************************)
C8_NativeBeforeOcr ==
    /\ \A k \in CallIdx("gemini") : \E m \in NativeIdx : m < k
    /\ calls # <<>> =>
          \/ /\ ext = PPTX
             /\ calls[1].tool = "markitdown"
             /\ Resolve(calls[1].arg) \in created
          \/ /\ ext = PPT
             /\ calls[1].tool = "soffice"
             /\ Len(calls) >= 2 => /\ calls[1].res = "ok"
                                   /\ calls[2].tool = "markitdown"
                                   /\ calls[2].arg = calls[1].ret

\* a .ppt whose native text is too short, in auto mode, reaching the OCR Client
C8_Witness ==
    /\ ext = PPT
    /\ ocr_mode = AUTO
    /\ Invoked("gemini")

(***************************************************************************)
(* C9.  A non-empty file whose name does not end in .ppt or .pptx is       *)
(* answered 415 at once: no temporary directory or file is created and no  *)
(* converter, extractor, rasterizer or OCR call is made.                   *)
(***************************************************************************)
C9_BadExtensionIs415 ==
    (/\ pc # "idle"
     /\ data # <<>>
     /\ ~SupportedName(filename))
    => /\ pc = "done"
       /\ resp.status = 415
       /\ DOMAIN resp.body = {"error"}
       /\ calls = <<>>
       /\ created = {}
       /\ tdir = <<>>
       /\ \A d \in dirs : ~Under(d, TmpRoot)

\* the name "ppt": the letters of the extension without the dot
C9_Witness ==
    /\ pc = "done"
    /\ data # <<>>
    /\ filename = <<"p", "p", "t">>
    /\ resp.status = 415

(***************************************************************************)
(* C10.  Within one request the Format Converter (ppt_any_to_pdf) is run   *)
(* at most once.                                                           *)
(***************************************************************************)
C10_ConverterAtMostOnce == Cardinality(CallIdx("soffice")) <= 1

=============================================================================
